---- MODULE Spec2Model ----
(***************************************************************************)
(* A model of pkg/data_handler.go of kate-backtest: the DataHandler        *)
(* (a cursor over a slice of OHLCV data points that hands out trailing     *)
(* windows) and PricesFromCSV (the ingestion of a CSV source into a        *)
(* DataHandler).                                                           *)
(*                                                                         *)
(* Conventions.                                                            *)
(*  - A Go string is a sequence of one-character strings, so that          *)
(*    strings.ToLower and strconv.ParseFloat are computed character by     *)
(*    character.                                                           *)
(*  - A float64 is the integer number of tenths it denotes (1.5 is 15):    *)
(*    every numeric token of the model has at most one fractional digit.   *)
(*  - A Go slice is a record [isNil, elems]; Go's 0-based half-open        *)
(*    s[lo:hi] is Slice(s, lo, hi).                                        *)
(***************************************************************************)
EXTENDS Integers, Sequences, FiniteSets, TLC

VARIABLES
    phase,      \* "unconstructed" | "constructed": whether a *DataHandler exists
    handler,    \* the DataHandler struct: counter, windowSize, prices
    ret,        \* what the last nextValues call returned: "none" | "window" | "nil" | "panic"
    delivered,  \* history: the datapoints of every window returned so far, in order
    calls,      \* history: the number of nextValues calls made so far
    source,     \* the CSV source PricesFromCSV is given: [exists, records]
    csvFile,    \* PricesFromCSV's csvFile: "unopened" | "nil" | "open"
    pc,         \* PricesFromCSV's position: "idle" | "start" | "header" | "rows" | "done"
    pos,        \* the number of records reader.Read has returned so far
    csvPrices,  \* PricesFromCSV's local slice prices
    outcome,    \* what PricesFromCSV did: [kind, token]
    streams,    \* two handlers built over one series: [built, given, s]
    firstRun    \* what an earlier PricesFromCSV call on the same source did

streamVars == <<phase, handler, ret, delivered, calls>>
csvVars == <<source, csvFile, pc, pos, csvPrices, outcome>>
auxVars == <<streams, firstRun>>
vars == <<phase, handler, ret, delivered, calls, source, csvFile, pc, pos, csvPrices, outcome,
          streams, firstRun>>

---------------------------------------------------------------------------
(* Bounds of the model.                                                    *)

\* The longest series handed to newDataHandler.
MaxLen == 4
\* Window sizes range over -MaxNegWindow .. MaxWindow.
MaxWindow == 5
MaxNegWindow == 1
\* nextValues is called at most MaxLen + MaxExtraCalls times on a stream.
MaxExtraCalls == 2
\* The most data rows of a CSV source.
MaxRows == 2
\* The most data rows of a source that is loaded and then streamed.
MaxLoadRows == 6

---------------------------------------------------------------------------
(* Go slices.                                                              *)

NilSlice == [isNil |-> TRUE, elems |-> <<>>]

MkSlice(s) == [isNil |-> FALSE, elems |-> s]

GoLen(s) == Len(s.elems)

SliceInBounds(s, lo, hi) == 0 <= lo /\ lo <= hi /\ hi <= GoLen(s)

Slice(s, lo, hi) == SubSeq(s.elems, lo + 1, hi)

\* Append1 that puts the new element first.
Append1MutPrepend(s, x) == [isNil |-> FALSE, elems |-> <<x>> \o s.elems]

\* append(s, x): appending to a nil slice allocates.
Append1(s, x) == [isNil |-> FALSE, elems |-> Append(s.elems, x)]

---------------------------------------------------------------------------
(* DataPoint and DataHandler.                                              *)

DataPoint(o, h, l, c, v) == [Open |-> o, High |-> h, Low |-> l, Close |-> c, Volume |-> v]

\* Two data points to build series from (values in tenths).
DataPoints == {DataPoint(10, 20, 5, 15, 1000), DataPoint(15, 25, 10, 20, 1500)}

SeqsUpTo(S, n) == UNION {[1..k -> S] : k \in 0..n}

\* What a caller may pass as prices: nil, or a slice of at most MaxLen points.
SeriesInputs == {NilSlice} \cup {MkSlice(s) : s \in SeqsUpTo(DataPoints, MaxLen)}

WindowSizes == (0 - MaxNegWindow)..MaxWindow

ZeroHandler == [counter |-> 0, windowSize |-> 0, prices |-> NilSlice]

\* newDataHandler that starts the cursor at 0.
NewDataHandlerMutCounterZero(prices, windowSize) ==
    [counter |-> 0, windowSize |-> windowSize, prices |-> prices]

newDataHandler(prices, windowSize) ==
    [counter |-> windowSize, windowSize |-> windowSize, prices |-> prices]

\* HasNext with the low end of the window compared instead of the cursor.
HasNextMutLowBound(h) == h.counter - h.windowSize < GoLen(h.prices)

\* nextValues' condition: handler.counter < len(handler.prices)
HasNext(h) == h.counter < GoLen(h.prices)

\* WindowLow one too high.
WindowLowMutOffByOne(h) == h.counter - h.windowSize + 1

\* The bounds of the slice expression of nextValues.
WindowLow(h) == h.counter - h.windowSize

WindowHigh(h) == h.counter

\* Advanced with a step of two.
AdvancedMutByTwo(h) == [h EXCEPT !.counter = h.counter + 2]

\* Advanced that forgets the increment.
AdvancedMutStuck(h) == h

\* handler.counter++
Advanced(h) == [h EXCEPT !.counter = h.counter + 1]

\* Exhausted with the cursor put back to the first window.
ExhaustedMutRewind(h) == [h EXCEPT !.counter = h.windowSize]

\* The handler after a call that returns nil: nothing is assigned.
Exhausted(h) == h

---------------------------------------------------------------------------
(* The stream: construction by newDataHandler, then nextValues calls.      *)

\* A stream of the pair before it is built.
IdleStream == [handler |-> ZeroHandler, ret |-> "none", delivered |-> <<>>, calls |-> 0]

\* No pair of handlers has been built, and PricesFromCSV has not run before.
AuxIdle ==
    /\ streams = [built |-> FALSE, given |-> NilSlice, s |-> [i \in 1..2 |-> IdleStream]]
    /\ firstRun = [taken |-> FALSE, outcome |-> [kind |-> "pending", token |-> <<>>],
                   phase |-> "unconstructed", handler |-> ZeroHandler,
                   delivered |-> <<>>, calls |-> 0]

CsvIdle ==
    /\ source = [exists |-> FALSE, records |-> <<>>]
    /\ csvFile = "unopened"
    /\ pc = "idle"
    /\ pos = 0
    /\ csvPrices = NilSlice
    /\ outcome = [kind |-> "pending", token |-> <<>>]

Init ==
    /\ phase = "unconstructed"
    /\ handler = ZeroHandler
    /\ ret = "none"
    /\ delivered = <<>>
    /\ calls = 0
    /\ CsvIdle
    /\ AuxIdle

\* A caller constructs a handler: newDataHandler returns one whatever it is given.
Construct ==
    /\ phase = "unconstructed"
    /\ pc = "idle"
    /\ \E p \in SeriesInputs, w \in WindowSizes :
          handler' = newDataHandler(p, w)
    /\ phase' = "constructed"
    /\ UNCHANGED <<ret, delivered, calls>>
    /\ UNCHANGED csvVars
    /\ UNCHANGED auxVars

\* One call of handler.nextValues().
NextValues ==
    /\ phase = "constructed"
    /\ calls < MaxLen + MaxExtraCalls
    /\ calls' = calls + 1
    /\ IF HasNext(handler)
       THEN IF SliceInBounds(handler.prices, WindowLow(handler), WindowHigh(handler))
            THEN /\ ret' = "window"
                 /\ delivered' = Append(delivered,
                        Slice(handler.prices, WindowLow(handler), WindowHigh(handler)))
                 /\ handler' = Advanced(handler)
            ELSE \* slice bounds out of range: the call panics before counter++
                 /\ ret' = "panic"
                 /\ UNCHANGED <<delivered, handler>>
       ELSE /\ ret' = "nil"
            /\ handler' = Exhausted(handler)
            /\ UNCHANGED delivered
    /\ UNCHANGED phase
    /\ UNCHANGED csvVars
    /\ UNCHANGED auxVars

Next == Construct \/ NextValues

Spec == Init /\ [][Next]_vars

\* The consumer's loop keeps calling nextValues.
SpecLive == Spec /\ WF_vars(NextValues)

---------------------------------------------------------------------------
(* Claims about the stream.  N is len(prices), W the window size, c the    *)
(* cursor.                                                                 *)

N == GoLen(handler.prices)
W == handler.windowSize
c == handler.counter

\* C1: for 1 <= W <= N, the stream has yielded exactly N - W + 1 windows
\* when nextValues first returns nil (and, nil being final, ever after).
C1_WindowCount ==
    (phase = "constructed" /\ ret = "nil" /\ 1 <= W /\ W <= N)
        => Len(delivered) = N - W + 1

\* C2: for 1 <= W <= N, the last window delivered before nil is returned is
\* prices[N-W : N], the one that holds the most recent record.
C2_LastWindowEndsAtLen ==
    (phase = "constructed" /\ ret = "nil" /\ 1 <= W /\ W <= N)
        => /\ delivered # <<>>
           /\ delivered[Len(delivered)] = Slice(handler.prices, N - W, N)

\* C3: for W >= 1, every window delivered has length W, and the k-th window
\* (0-indexed) holds prices[k], ..., prices[k+W-1] in that order.
C3_WindowContents ==
    (phase = "constructed" /\ W >= 1)
        => \A k \in 0..(Len(delivered) - 1) :
              /\ Len(delivered[k + 1]) = W
              /\ k + W <= N
              /\ \A j \in 1..W : delivered[k + 1][j] = handler.prices.elems[k + j]

C3_Witness ==
    /\ phase = "constructed"
    /\ W >= 2
    /\ Len(delivered) >= 2
    /\ delivered[1] # delivered[2]

\* C4: with N < W (W >= 1) a handler is constructed, no call of nextValues
\* ever returns a window (or panics): every call returns nil.
C4_ShortSeriesExhausted ==
    (phase = "constructed" /\ W >= 1 /\ N < W)
        => /\ delivered = <<>>
           /\ ret \in {"none", "nil"}
           /\ (calls >= 1 => ret = "nil")

C4_Witness ==
    /\ phase = "constructed"
    /\ W >= 1
    /\ 1 <= N
    /\ N < W
    /\ calls >= 2
    /\ ret = "nil"

\* C5: once a call of nextValues has returned nil, the next call returns nil.
C5_ExhaustionTerminal == [][ret = "nil" => ret' = "nil"]_vars

C5_Witness ==
    /\ phase = "constructed"
    /\ W >= 1
    /\ delivered # <<>>
    /\ ret = "nil"
    /\ calls >= Len(delivered) + 2

\* C6, as claimed: in every state of a stream, W <= c <= len(prices).
C6_CursorWithinSeries ==
    (phase = "constructed" /\ W >= 1 /\ ~handler.prices.isNil)
        => (W <= c /\ c <= N)

\* C6, amended: W <= c always; c <= len(prices) when len(prices) >= W, and
\* c stays at W when len(prices) < W.
C6_CursorBounds ==
    phase = "constructed"
        => /\ W <= c
           /\ (N >= W => c <= N)
           /\ (N < W => c = W)

C6_Witness ==
    /\ phase = "constructed"
    /\ W >= 1
    /\ 1 <= N
    /\ N < W
    /\ c > N
    /\ calls >= 1

\* C7: newDataHandler reports a window size below 1 or a nil series at
\* construction: no handler comes to exist for such arguments.
C7_InvalidConstructionReported ==
    phase = "constructed" => (W >= 1 /\ ~handler.prices.isNil)

---------------------------------------------------------------------------
(* Strings: strings.ToLower and strconv.ParseFloat, character by           *)
(* character.                                                              *)

UpperLetters ==
    <<"A", "B", "C", "D", "E", "F", "G", "H", "I", "J", "K", "L", "M",
      "N", "O", "P", "Q", "R", "S", "T", "U", "V", "W", "X", "Y", "Z">>

LowerLetters ==
    <<"a", "b", "c", "d", "e", "f", "g", "h", "i", "j", "k", "l", "m",
      "n", "o", "p", "q", "r", "s", "t", "u", "v", "w", "x", "y", "z">>

Digits == <<"0", "1", "2", "3", "4", "5", "6", "7", "8", "9">>

IndexOf(table, ch) == CHOOSE i \in 1..Len(table) : table[i] = ch

IsIn(table, ch) == \E i \in 1..Len(table) : table[i] = ch

ToLowerChar(ch) ==
    IF IsIn(UpperLetters, ch) THEN LowerLetters[IndexOf(UpperLetters, ch)] ELSE ch

\* ToLower that leaves the case alone.
ToLowerMutIdentity(str) == str

\* strings.ToLower, on the ASCII strings of the model.
ToLower(str) == [i \in 1..Len(str) |-> ToLowerChar(str[i])]

DigitVal(ch) == IndexOf(Digits, ch) - 1

AllDigits(str) == \A i \in 1..Len(str) : IsIn(Digits, str[i])

RECURSIVE NatVal(_)
NatVal(ds) ==
    IF ds = <<>> THEN 0
    ELSE NatVal(SubSeq(ds, 1, Len(ds) - 1)) * 10 + DigitVal(ds[Len(ds)])

SetMin(S) == CHOOSE x \in S : \A y \in S : x <= y

\* strconv.ParseFloat(str, 64) on decimal notation without exponent: an
\* optional sign, digits, an optional point, digits, at least one digit in
\* all.  The value is in tenths.
ParseFloat(str) ==
    LET signed == Len(str) > 0 /\ str[1] \in {"+", "-"}
        body == IF signed THEN Tail(str) ELSE str
        dots == {i \in 1..Len(body) : body[i] = "."}
        dot == IF dots = {} THEN Len(body) + 1 ELSE SetMin(dots)
        intPart == SubSeq(body, 1, dot - 1)
        fracPart == SubSeq(body, dot + 1, Len(body))
        ok == /\ AllDigits(intPart)
              /\ AllDigits(fracPart)
              /\ Len(intPart) + Len(fracPart) >= 1
        mag == NatVal(intPart) * 10
                 + (IF fracPart = <<>> THEN 0 ELSE DigitVal(fracPart[1]))
    IN  IF ok
        THEN [ok |-> TRUE, val |-> IF signed /\ str[1] = "-" THEN 0 - mag ELSE mag]
        ELSE [ok |-> FALSE, val |-> 0]

\* strToFloat: the number, or -1 and an error that quotes str.
strToFloat(str) ==
    LET r == ParseFloat(str)
    IN  IF r.ok THEN [err |-> FALSE, value |-> r.val, token |-> <<>>]
        ELSE [err |-> TRUE, value |-> 0 - 10, token |-> str]

---------------------------------------------------------------------------
(* The CSV header.                                                         *)

sOpen == <<"o", "p", "e", "n">>
sHigh == <<"h", "i", "g", "h">>
sLow == <<"l", "o", "w">>
sClose == <<"c", "l", "o", "s", "e">>
sVolume == <<"v", "o", "l", "u", "m", "e">>

csvColumns == <<sOpen, sHigh, sLow, sClose, sVolume>>

\* The number of cells PricesFromCSV converts in each row.
NumCells == 5

\* The window size PricesFromCSV gives every handler it returns.
CsvWindowSize == 5

RECURSIVE HeaderLoop(_, _)
\* isCSVHeaderValid's loop from column i on: "valid", "invalid", or "panic"
\* when firstLine[i] is out of range.
HeaderLoop(firstLine, i) ==
    IF i > Len(csvColumns) THEN "valid"
    ELSE IF i > Len(firstLine) THEN "panic"
    ELSE IF ToLower(firstLine[i]) # csvColumns[i] THEN "invalid"
    ELSE HeaderLoop(firstLine, i + 1)

isCSVHeaderValid(firstLine) == HeaderLoop(firstLine, 1)

---------------------------------------------------------------------------
(* The sources PricesFromCSV is run on.  A source is a file that exists or *)
(* not, and the records encoding/csv splits it into (empty lines are       *)
(* skipped by the reader, so every record has at least one field).         *)

sOpenCap == <<"O", "p", "e", "n">>
sHighCap == <<"H", "i", "g", "h">>
sLowCap == <<"L", "o", "w">>
sCloseCap == <<"C", "l", "o", "s", "e">>
sVolumeCap == <<"V", "o", "l", "u", "m", "e">>
sOpenUp == <<"O", "P", "E", "N">>
sVolumeMixed == <<"v", "O", "l", "U", "m", "E">>
sDate == <<"d", "a", "t", "e">>
sOpenSpace == <<" ", "o", "p", "e", "n">>
sOpens == <<"o", "p", "e", "n", "s">>

CapHeader == <<sOpenCap, sHighCap, sLowCap, sCloseCap, sVolumeCap>>

ReversedHeader == <<sVolume, sClose, sLow, sHigh, sOpen>>

HeaderTokens ==
    {sOpen, sHigh, sLow, sClose, sVolume,
     sOpenCap, sHighCap, sLowCap, sCloseCap, sVolumeCap,
     sOpenUp, sVolumeMixed, sDate, sOpenSpace, sOpens, <<>>}

\* The required header with one token replaced, capitalised headers,
\* permutations, and headers of fewer or more than five columns.
Headers ==
    {[csvColumns EXCEPT ![i] = t] : i \in 1..5, t \in HeaderTokens}
    \cup {CapHeader, [CapHeader EXCEPT ![5] = sVolumeMixed], [CapHeader EXCEPT ![3] = sDate]}
    \cup {ReversedHeader,
          <<sHigh, sOpen, sLow, sClose, sVolume>>,
          <<sVolumeCap, sCloseCap, sLowCap, sHighCap, sOpenCap>>}
    \cup {SubSeq(csvColumns, 1, k) : k \in 1..4}
    \cup {SubSeq(CapHeader, 1, k) : k \in 1..4}
    \cup {<<sDate>>, <<sHigh, sLow>>, <<sOpen, sDate>>}
    \cup {csvColumns \o <<sDate>>, CapHeader \o <<sOpen>>, ReversedHeader \o <<sDate>>}

n1 == <<"1">>
n2 == <<"2">>
n3 == <<"3">>
n4 == <<"4">>
n5 == <<"5">>
sAbc == <<"a", "b", "c">>

Rows ==
    { <<n1, n2, <<"0", ".", "5">>, <<"1", ".", "5">>, <<"1", "0", "0">> >>,
      << <<"1", ".", "5">>, <<"2", ".", "5">>, n1, n2, <<"1", "5", "0">> >>,
      << <<"-", "1">>, <<"+", "2">>, <<".", "5">>, <<"5", ".">>, <<"0", "0", "7">> >>,
      << <<"1", ".", "0">>, <<"2", ".", "0">>, sAbc, <<"3", ".", "0">>, <<"1", "0", "0">> >>,
      <<n1, <<"x">>, n3, <<"y">>, n5>>,
      << <<" ", "1">>, n2, n3, n4, <<>> >>,
      <<n1, n2, n3, n4>>,
      << <<"1", ".", "0">>, sAbc, <<"3", ".", "0">>, <<"1", "0", "0">> >>,
      <<n1, n2, n3, n4, n5, sAbc>> }

Sources ==
    {[exists |-> FALSE, records |-> <<>>], [exists |-> TRUE, records |-> <<>>]}
    \cup {[exists |-> TRUE, records |-> <<h>> \o rows] :
              h \in Headers, rows \in SeqsUpTo(Rows, MaxRows)}

---------------------------------------------------------------------------
(* PricesFromCSV, step by step: open, read the header, then one loop       *)
(* iteration per step.                                                     *)

\* reader.Read() when n records have been returned so far.  The reader
\* fails on a nil file, returns io.EOF at the end, and (FieldsPerRecord
\* being 0) returns ErrFieldCount for a record whose number of fields
\* differs from the first record's.
ReaderRead(src, file, n) ==
    IF file = "nil" THEN [err |-> "invalid", line |-> <<>>]
    ELSE IF n >= Len(src.records) THEN [err |-> "EOF", line |-> <<>>]
    ELSE IF n >= 1 /\ Len(src.records[n + 1]) # Len(src.records[1])
         THEN [err |-> "fieldCount", line |-> src.records[n + 1]]
    ELSE [err |-> "none", line |-> src.records[n + 1]]

RECURSIVE ParseCells(_, _, _)
\* The loop over the first NumCells cells of a row, from cell i on.
ParseCells(line, i, numbers) ==
    IF i > NumCells THEN [kind |-> "ok", numbers |-> numbers, token |-> <<>>]
    ELSE IF i > Len(line) THEN [kind |-> "panic", numbers |-> numbers, token |-> <<>>]
    ELSE LET v == strToFloat(line[i])
         IN  IF v.err
             THEN [kind |-> "error", numbers |-> numbers, token |-> v.token]
             ELSE ParseCells(line, i + 1, Append(numbers, v.value))

StreamIdle ==
    /\ phase = "unconstructed"
    /\ handler = ZeroHandler
    /\ ret = "none"
    /\ delivered = <<>>
    /\ calls = 0

InitCSV ==
    /\ StreamIdle
    /\ source \in Sources
    /\ csvFile = "unopened"
    /\ pc = "start"
    /\ pos = 0
    /\ csvPrices = NilSlice
    /\ outcome = [kind |-> "pending", token |-> <<>>]
    /\ AuxIdle

\* PricesFromCSV ends without a handler: a returned error ("headerError",
\* "parseError"), log.Fatal ("fatal"), or a panic.
Fail(kind, token) ==
    /\ pc' = "done"
    /\ outcome' = [kind |-> kind, token |-> token]
    /\ UNCHANGED <<csvPrices, csvFile, source>>
    /\ UNCHANGED streamVars

\* csvFile, _ := os.Open(csvFilePath): the error is dropped.
OpenCSV ==
    /\ pc = "start"
    /\ UNCHANGED auxVars
    /\ csvFile' = IF source.exists THEN "open" ELSE "nil"
    /\ pc' = "header"
    /\ UNCHANGED <<source, pos, csvPrices, outcome>>
    /\ UNCHANGED streamVars

\* The first reader.Read() and isCSVHeaderValid.
ReadHeader ==
    /\ pc = "header"
    /\ UNCHANGED auxVars
    /\ LET rd == ReaderRead(source, csvFile, pos)
       IN  IF rd.err # "none"
           THEN Fail("headerError", <<>>) /\ UNCHANGED pos
           ELSE /\ pos' = pos + 1
                /\ LET valid == isCSVHeaderValid(rd.line)
                   IN  IF valid = "valid"
                       THEN /\ pc' = "rows"
                            /\ UNCHANGED <<source, csvFile, csvPrices, outcome>>
                            /\ UNCHANGED streamVars
                       ELSE IF valid = "invalid"
                            THEN Fail("headerError", <<>>)
                            ELSE Fail("panic", <<>>)

\* One iteration of the loop: read a record; at io.EOF return the handler.
ReadRow ==
    /\ pc = "rows"
    /\ UNCHANGED auxVars
    /\ LET rd == ReaderRead(source, csvFile, pos)
       IN  IF rd.err = "EOF"
           THEN /\ pc' = "done"
                /\ outcome' = [kind |-> "ok", token |-> <<>>]
                /\ handler' = newDataHandler(csvPrices, CsvWindowSize)
                /\ phase' = "constructed"
                /\ UNCHANGED <<source, csvFile, pos, csvPrices, ret, delivered, calls>>
           ELSE IF rd.err # "none"
           THEN Fail("fatal", <<>>) /\ pos' = pos + 1
           ELSE /\ pos' = pos + 1
                /\ LET r == ParseCells(rd.line, 1, <<>>)
                   IN  IF r.kind = "ok"
                       THEN /\ csvPrices' = Append1(csvPrices,
                                  DataPoint(r.numbers[1], r.numbers[2], r.numbers[3],
                                            r.numbers[4], r.numbers[5]))
                            /\ UNCHANGED <<source, csvFile, pc, outcome>>
                            /\ UNCHANGED streamVars
                       ELSE IF r.kind = "error"
                            THEN Fail("parseError", r.token)
                            ELSE Fail("panic", <<>>)

NextCSV == OpenCSV \/ ReadHeader \/ ReadRow

SpecCSV == InitCSV /\ [][NextCSV]_vars

---------------------------------------------------------------------------
(* Claims about the ingestion.                                             *)

recs == source.records

Failed == outcome.kind \in {"headerError", "parseError", "fatal", "panic"}

\* C8: every ingestion failure is a returned error with no handler; none
\* ends the process (log.Fatal) or panics.
C8_FailuresAreReturned ==
    (pc = "done" /\ Failed)
        => /\ outcome.kind \in {"headerError", "parseError"}
           /\ phase = "unconstructed"

\* The header the format asks for: exactly the five columns, in order,
\* whatever the case.
HeaderAsRequired(line) ==
    /\ Len(line) = Len(csvColumns)
    /\ \A i \in 1..Len(csvColumns) : ToLower(line[i]) = csvColumns[i]

BadCells(line) == {j \in 1..Len(line) : ~ParseFloat(line[j]).ok}

BadRows == {i \in 2..Len(recs) : BadCells(recs[i]) # {}}

\* C9: when a data row of a source with the required header holds a cell
\* that is not numeric, the ingestion returns a parse error that names the
\* first such cell of the first such row, returns no handler, and has read
\* no record after that row.
C9_BadCellIsParseError ==
    (pc = "done" /\ source.exists /\ Len(recs) >= 1
        /\ HeaderAsRequired(recs[1]) /\ BadRows # {})
        => LET i == SetMin(BadRows)
           IN  /\ outcome.kind = "parseError"
               /\ outcome.token = recs[i][SetMin(BadCells(recs[i]))]
               /\ phase = "unconstructed"
               /\ pos = i

\* a and b are the same but for the case of ASCII letters (b in lower case).
SameButCase(a, b) ==
    /\ Len(a) = Len(b)
    /\ \A j \in 1..Len(a) :
          \/ a[j] = b[j]
          \/ \E n \in 1..Len(UpperLetters) :
                a[j] = UpperLetters[n] /\ b[j] = LowerLetters[n]

\* C10: a five-column header is accepted iff its tokens are open, high, low,
\* close, volume in that order, whatever their case; any other five-column
\* header is rejected with the header error before any row is read.
C10_HeaderAcceptance ==
    (pc \in {"rows", "done"} /\ source.exists /\ Len(recs) >= 1 /\ Len(recs[1]) = 5)
        => IF \A i \in 1..5 : SameButCase(recs[1][i], csvColumns[i])
           THEN outcome.kind \in {"pending", "ok", "parseError", "fatal"}
           ELSE /\ pc = "done"
                /\ outcome.kind = "headerError"
                /\ pos = 1
                /\ csvPrices = NilSlice
                /\ phase = "unconstructed"

C10_Witness ==
    /\ pc = "done"
    /\ outcome.kind = "ok"
    /\ recs[1] = CapHeader
    /\ GoLen(handler.prices) = 2

\* C11: a source whose header does not have exactly five fields (no header,
\* fewer than five columns, more than five) ends with the header error and
\* no handler.
C11_HeaderOfFiveFields ==
    (pc \in {"rows", "done"} /\ source.exists
        /\ (Len(recs) = 0 \/ Len(recs[1]) # Len(csvColumns)))
        => /\ pc = "done"
           /\ outcome.kind = "headerError"
           /\ phase = "unconstructed"

\* C12: a source that cannot be opened ends the load with an error that is
\* not the header error, and the load does not go on to read the header.
C12_OpenFailureIsDistinct ==
    (~source.exists /\ pc \in {"header", "rows", "done"})
        => /\ pc = "done"
           /\ Failed
           /\ outcome.kind # "headerError"

\* The data point a row of numeric cells stands for: open, high, low, close,
\* volume in column order.
RowValues(line) ==
    DataPoint(ParseFloat(line[1]).val, ParseFloat(line[2]).val,
              ParseFloat(line[3]).val, ParseFloat(line[4]).val,
              ParseFloat(line[5]).val)

WellFormedSource ==
    /\ source.exists
    /\ Len(recs) >= 1
    /\ HeaderAsRequired(recs[1])
    /\ \A i \in 2..Len(recs) : Len(recs[i]) = 5 /\ BadCells(recs[i]) = {}

\* C13: a source with the required header and N well-formed rows is ingested
\* successfully, and every successful ingestion returns a series of exactly
\* N records, record i holding the values of data row i in column order.
C13_SeriesInSourceOrder ==
    /\ (pc = "done" /\ WellFormedSource) => outcome.kind = "ok"
    /\ (pc = "done" /\ outcome.kind = "ok")
          => /\ phase = "constructed"
             /\ GoLen(handler.prices) = Len(recs) - 1
             /\ \A i \in 1..(Len(recs) - 1) :
                   handler.prices.elems[i] = RowValues(recs[i + 1])

C13_Witness ==
    /\ pc = "done"
    /\ outcome.kind = "ok"
    /\ recs[1] = csvColumns
    /\ handler.prices.elems =
          <<DataPoint(10, 20, 5, 15, 1000), DataPoint(15, 25, 10, 20, 1500)>>

---------------------------------------------------------------------------
(* Further claims about the stream.                                        *)

\* C16: each nextValues call on a stream (W >= 0) either, when c < len,
\* returns prices[c-W : c] and increases the cursor by exactly 1, or
\* returns nil and leaves the cursor alone; the series and the window size
\* stay as they are and the cursor never decreases.
C16_AdvanceFrame ==
    [][(phase = "constructed" /\ W >= 0)
          => /\ IF c < N
                THEN /\ ret' = "window"
                     /\ delivered' =
                           Append(delivered, SubSeq(handler.prices.elems, c - W + 1, c))
                     /\ handler'.counter = c + 1
                ELSE /\ ret' = "nil"
                     /\ delivered' = delivered
                     /\ handler'.counter = c
             /\ handler'.prices = handler.prices
             /\ handler'.windowSize = W
             /\ handler'.counter >= c]_vars

C16_Witness ==
    /\ phase = "constructed"
    /\ W >= 1
    /\ ret = "window"
    /\ calls >= 2
    /\ c = N

\* C17: on a stream with W >= 1 the consumer's loop, started at
\* construction, reaches a call that returns nil after at most
\* len(prices) + 1 calls.
C17_Terminates ==
    (phase = "constructed" /\ W >= 1 /\ calls = 0)
        ~> (ret = "nil" /\ calls <= N + 1)

C17_Witness ==
    /\ phase = "constructed"
    /\ W >= 1
    /\ N >= W + 2
    /\ ret = "nil"
    /\ calls = N - W + 1

\* C18: with W >= 0 no call panics and every slice cut is within bounds
\* (0 <= c - W <= c <= len(prices)); with W < 0 and a series that is not
\* empty the first call cuts an out-of-bounds slice and panics.
C18_SlicesInBounds ==
    phase = "constructed"
        => /\ W >= 0 =>
                /\ ret # "panic"
                /\ c < N => (0 <= c - W /\ c - W <= c /\ c <= N)
           /\ (W < 0 /\ N >= 1 /\ calls >= 1) =>
                /\ ret = "panic"
                /\ delivered = <<>>

C18_Witness ==
    /\ phase = "constructed"
    /\ W = 0
    /\ N >= 2
    /\ Len(delivered) = N
    /\ ret = "nil"

---------------------------------------------------------------------------
(* Loading and streaming: PricesFromCSV on a source, nextValues calls on   *)
(* the handler it returns, and a second PricesFromCSV call on the same     *)
(* source.                                                                 *)

RowA == <<n1, n2, <<"0", ".", "5">>, <<"1", ".", "5">>, <<"1", "0", "0">> >>
RowB == << <<"1", ".", "5">>, <<"2", ".", "5">>, n1, n2, <<"1", "5", "0">> >>
RowBad == << <<"1", ".", "0">>, <<"2", ".", "0">>, sAbc, <<"3", ".", "0">>, <<"1", "0", "0">> >>

LoadSources ==
    {[exists |-> FALSE, records |-> <<>>]}
    \cup {[exists |-> TRUE, records |-> <<h>> \o rows] :
              h \in {csvColumns, CapHeader, ReversedHeader},
              rows \in SeqsUpTo({RowA, RowB, RowBad}, MaxLoadRows)}

InitLoad ==
    /\ StreamIdle
    /\ source \in LoadSources
    /\ csvFile = "unopened"
    /\ pc = "start"
    /\ pos = 0
    /\ csvPrices = NilSlice
    /\ outcome = [kind |-> "pending", token |-> <<>>]
    /\ AuxIdle

\* FreshPrices as a variable that outlives the call.
FreshPricesMutKept == csvPrices

\* var prices []DataPoint: each call starts with its own nil slice.
FreshPrices == NilSlice

\* The caller notes what the first call and its stream did, then calls
\* PricesFromCSV again on the same source.
LoadAgain ==
    /\ pc = "done"
    /\ ~firstRun.taken
    /\ firstRun' = [taken |-> TRUE, outcome |-> outcome, phase |-> phase,
                    handler |-> handler, delivered |-> delivered, calls |-> calls]
    /\ pc' = "start"
    /\ csvFile' = "unopened"
    /\ pos' = 0
    /\ csvPrices' = FreshPrices
    /\ outcome' = [kind |-> "pending", token |-> <<>>]
    /\ phase' = "unconstructed"
    /\ handler' = ZeroHandler
    /\ ret' = "none"
    /\ delivered' = <<>>
    /\ calls' = 0
    /\ UNCHANGED <<source, streams>>

NextLoad == OpenCSV \/ ReadHeader \/ ReadRow \/ NextValues \/ LoadAgain

SpecLoad == InitLoad /\ [][NextLoad]_vars

\* C19: the handler a successful PricesFromCSV returns has window size 5
\* and starts with cursor 5, whatever the source; with 5 data rows or fewer
\* every nextValues call returns nil.
C19_LoadedWindowIsFive ==
    (pc = "done" /\ outcome.kind = "ok")
        => /\ phase = "constructed"
           /\ W = 5
           /\ c >= 5
           /\ (calls = 0 => c = 5)
           /\ (Len(recs) - 1 <= 5 /\ calls >= 1) => (ret = "nil" /\ delivered = <<>>)

C19_Witness ==
    /\ pc = "done"
    /\ outcome.kind = "ok"
    /\ Len(recs) - 1 = 5
    /\ calls >= 1
    /\ ret = "nil"

\* The result of the k-th nextValues call of a stream that has delivered del.
ResultAt(del, k) ==
    IF k <= Len(del) THEN [isNil |-> FALSE, data |-> del[k]]
    ELSE [isNil |-> TRUE, data |-> <<>>]

\* C15: a second ingestion of the same source ends as the first did (the
\* same failure or the same series), and the stream built from it delivers,
\* call for call, what the first stream delivered.
C15_Deterministic ==
    (firstRun.taken /\ pc = "done")
        => /\ outcome = firstRun.outcome
           /\ phase = firstRun.phase
           /\ phase = "constructed" =>
                /\ handler.prices = firstRun.handler.prices
                /\ W = firstRun.handler.windowSize
                /\ \A k \in 1..calls :
                      k <= firstRun.calls =>
                          ResultAt(delivered, k) = ResultAt(firstRun.delivered, k)
                /\ calls = firstRun.calls => handler = firstRun.handler

C15_Witness ==
    /\ firstRun.taken
    /\ pc = "done"
    /\ outcome.kind = "ok"
    /\ firstRun.calls >= 2
    /\ calls >= 2
    /\ delivered # <<>>
    /\ ret = "nil"

---------------------------------------------------------------------------
(* Two handlers over one series, their nextValues calls interleaved.       *)

\* handler.nextValues() as a function of the handler: what is returned and
\* the handler afterwards.
nextValues(h) ==
    IF HasNext(h)
    THEN IF SliceInBounds(h.prices, WindowLow(h), WindowHigh(h))
         THEN [ret |-> "window",
               data |-> Slice(h.prices, WindowLow(h), WindowHigh(h)),
               handler |-> Advanced(h)]
         ELSE [ret |-> "panic", data |-> <<>>, handler |-> h]
    ELSE [ret |-> "nil", data |-> <<>>, handler |-> Exhausted(h)]

\* OtherHandler with one cursor for all handlers.
OtherHandlerMutSharedCursor(other, mine) == [other EXCEPT !.counter = mine.counter]

\* What a nextValues call leaves of another handler (mine is the receiver
\* after the call): the method assigns to its receiver's counter only.
OtherHandler(other, mine) == other

InitPair ==
    /\ StreamIdle
    /\ CsvIdle
    /\ AuxIdle

\* Two handlers are built over the same series, each with its window size.
ConstructPair ==
    /\ ~streams.built
    /\ \E p \in SeriesInputs, w1 \in WindowSizes, w2 \in WindowSizes :
          streams' = [built |-> TRUE, given |-> p,
                      s |-> [i \in 1..2 |->
                               [IdleStream EXCEPT
                                  !.handler = newDataHandler(p, IF i = 1 THEN w1 ELSE w2)]]]
    /\ UNCHANGED <<firstRun>>
    /\ UNCHANGED streamVars
    /\ UNCHANGED csvVars

\* One nextValues call on handler i of the pair.
AdvanceStream(i) ==
    /\ streams.built
    /\ streams.s[i].calls < MaxLen + MaxExtraCalls
    /\ LET r == nextValues(streams.s[i].handler)
           mine == [handler |-> r.handler,
                    ret |-> r.ret,
                    delivered |-> IF r.ret = "window"
                                  THEN Append(streams.s[i].delivered, r.data)
                                  ELSE streams.s[i].delivered,
                    calls |-> streams.s[i].calls + 1]
           other == [streams.s[3 - i] EXCEPT
                        !.handler = OtherHandler(streams.s[3 - i].handler, r.handler)]
       IN  streams' = [streams EXCEPT !.s = [j \in 1..2 |-> IF j = i THEN mine ELSE other]]
    /\ UNCHANGED <<firstRun>>
    /\ UNCHANGED streamVars
    /\ UNCHANGED csvVars

NextPair == ConstructPair \/ AdvanceStream(1) \/ AdvanceStream(2)

SpecPair == InitPair /\ [][NextPair]_vars

RECURSIVE AloneAfter(_, _)
\* A handler run alone: the stream record after k nextValues calls.
AloneAfter(h, k) ==
    IF k = 0 THEN [IdleStream EXCEPT !.handler = h]
    ELSE LET before == AloneAfter(h, k - 1)
             r == nextValues(before.handler)
         IN  [handler |-> r.handler,
              ret |-> r.ret,
              delivered |-> IF r.ret = "window"
                            THEN Append(before.delivered, r.data)
                            ELSE before.delivered,
              calls |-> k]

\* C14: under any interleaving, each of two handlers over one series has
\* delivered what it would have delivered alone after as many calls, with
\* the cursor it would have alone, and both still hold the series given.
C14_StreamsIndependent ==
    streams.built
        => \A i \in 1..2 :
              /\ streams.s[i] =
                    AloneAfter(newDataHandler(streams.given,
                                              streams.s[i].handler.windowSize),
                               streams.s[i].calls)
              /\ streams.s[i].handler.prices = streams.given

C14_Witness ==
    /\ streams.built
    /\ streams.s[1].handler.windowSize = 1
    /\ streams.s[2].handler.windowSize = 2
    /\ Len(streams.s[1].delivered) >= 2
    /\ Len(streams.s[2].delivered) >= 1
    /\ streams.s[1].calls # streams.s[2].calls
    /\ streams.s[2].ret = "nil"

====
